---- MODULE Spec2Model ----
(***************************************************************************)
(* A model of src/bot.py: a chat bot that buffers the attachments of a     *)
(* media group, debounces their finalization with one asyncio task per     *)
(* arrival, keeps one reorder session per user and re-sends the files in   *)
(* the order the user types.                                               *)
(*                                                                         *)
(* Time is counted in tenths of a second.  The handlers run on one asyncio *)
(* event loop: the code between two awaits is one atomic step.             *)
(***************************************************************************)
EXTENDS Integers, Sequences, FiniteSets, TLC

\* ------------------------------------------------------------------ bounds
MaxEvents == 3
MaxTasks == 3
MaxInflight == 2
Horizon == 9
StartTime == 1000

\* ------------------------------------------------------- program constants
WARNING_COOLDOWN == 15
SESSION_LIFETIME == 1200
DEBOUNCE_DELAY == 7
JANITOR_INTERVAL == 300
STALE_AGE == 300
MIN_FILES == 2
MAX_FILES == 10

\* ------------------------------------------------------------- input sets
Users == {"u1", "u2"}
Gids == {"g1", "g2"}
MediaTypes == {"photo", "video", "audio", "document"}
InputTypes == {"photo", "video", "sticker"}
DateLags == {0, STALE_AGE + 1}
TickSteps == {3}
TaskIds == 1..MaxTasks

VARIABLES
    now,            \* time.time(), in tenths of a second
    user_sessions,  \* user id -> session, or NoSession
    media_cache,    \* group id -> buffered messages (<<>>: no entry)
    group_timers,   \* group id -> registered delayed_process task (0: no entry)
    warning_cache,  \* user id -> time of the last warning (NoWarning: no entry)
    tasks,          \* task id -> delayed_process task
    orders,         \* handle_order_input invocations suspended in their send, each
                    \* with the session it read into its local variables
    janitor_wake,   \* when cleanup_cache's sleep ends
    events,         \* how much of the environment's budget of events is used
    arrived_at,     \* group id -> time of the latest attachment event
    last            \* what the latest step asked of the Messaging Client

vars == <<now, user_sessions, media_cache, group_timers, warning_cache, tasks,
          orders, janitor_wake, events, arrived_at, last>>

\* ------------------------------------------------------------ state values
NoSession == [files |-> <<>>, type |-> "none", expected_count |-> 0, timestamp |-> 0]
NoWarning == -1
NoTask == [pc |-> "none", gid |-> "none", wake |-> 0, cancel |-> FALSE]
NoOut == [op |-> "init", user |-> "none", gid |-> "none", reply |-> "none",
          n |-> 0, quiet |-> 0, type |-> "none", media |-> <<>>]

HasSession(u) == user_sessions[u] # NoSession

Range(s) == {s[i] : i \in 1..Len(s)}

\* a task object that exists and has not finished
Live(t) == tasks[t].pc # "none"

FreeTask == CHOOSE t \in TaskIds : ~Live(t) /\ \A s \in TaskIds : ~Live(s) => t <= s

\* dict.pop(key, None) on group_timers
PopTimer(g) == [group_timers EXCEPT ![g] = 0]

\* ------------------------------------------------------------------- Init
Init ==
    /\ now = StartTime
    /\ user_sessions = [u \in Users |-> NoSession]
    /\ media_cache = [g \in Gids |-> <<>>]
    /\ group_timers = [g \in Gids |-> 0]
    /\ warning_cache = [u \in Users |-> NoWarning]
    /\ tasks = [t \in TaskIds |-> NoTask]
    /\ orders = <<>>
    /\ janitor_wake = StartTime
    /\ events = 0
    /\ arrived_at = [g \in Gids |-> 0]
    /\ last = NoOut

\* ------------------------------------------------------- Group Aggregator
\* message.date: the platform's whole-second send time, lag tenths before now
MessageDate(lag) == ((now - lag) \div 10) * 10

\* file ids are unique: the file of the k-th event delivered is numbered past the
\* files a starting point holds already
Preloaded == MAX_FILES + 1
FileId(g) == <<g, Preloaded + events + 1>>

\* handle_media_group: buffer the message, cancel the registered timer, arm a new one
HandleMediaGroup(u, g, ct, lag) ==
    LET msg == [user |-> u, content_type |-> ct,
                file |-> FileId(g), date |-> MessageDate(lag)]
        old == group_timers[g]
        new == FreeTask
    IN  /\ \E t \in TaskIds : ~Live(t)
        /\ media_cache' = [media_cache EXCEPT ![g] = Append(@, msg)]
        /\ tasks' = [t \in TaskIds |->
                        IF t = new
                        THEN [pc |-> "start", gid |-> g, wake |-> 0, cancel |-> FALSE]
                        ELSE IF t = old /\ Live(t)
                             THEN [tasks[t] EXCEPT !.cancel = TRUE]
                             ELSE tasks[t]]
        /\ group_timers' = [group_timers EXCEPT ![g] = new]
        /\ events' = events + 1
        /\ arrived_at' = [arrived_at EXCEPT ![g] = now]
        /\ last' = [NoOut EXCEPT !.op = "attachment", !.user = u, !.gid = g]
        /\ UNCHANGED <<now, user_sessions, warning_cache, orders, janitor_wake>>

\* faulty variant: the count has no upper limit
ValidGroup_NoUpperBound(messages) ==
    /\ Cardinality({messages[i].content_type : i \in 1..Len(messages)}) <= 1
    /\ MIN_FILES <= Len(messages)

\* faulty variant: the content types are not compared
ValidGroup_AnyTypes(messages) ==
    /\ MIN_FILES <= Len(messages)
    /\ Len(messages) <= MAX_FILES

\* the 2..10 files of one type that process_media_group asks for
ValidGroup(messages) ==
    /\ Cardinality({messages[i].content_type : i \in 1..Len(messages)}) <= 1
    /\ MIN_FILES <= Len(messages)
    /\ Len(messages) <= MAX_FILES

\* faulty variant: the files are stored last message first
NewSession_Reversed(messages) ==
    [files |-> [i \in 1..Len(messages) |-> messages[Len(messages) + 1 - i].file],
     type |-> messages[1].content_type,
     expected_count |-> Len(messages),
     timestamp |-> now]

\* the session process_media_group stores
NewSession(messages) ==
    [files |-> [i \in 1..Len(messages) |-> messages[i].file],
     type |-> messages[1].content_type,
     expected_count |-> Len(messages),
     timestamp |-> now]

\* faulty variant: the buffer is read and left in media_cache
PopGroup_Peek(g) == media_cache

\* media_cache.pop(group_id, [])
PopGroup(g) == [media_cache EXCEPT ![g] = <<>>]

\* delayed_process begins: a task cancelled before its first step never enters the try
TaskStart(t) ==
    /\ tasks[t].pc = "start"
    /\ tasks' = [tasks EXCEPT ![t] =
                    IF @.cancel THEN NoTask
                    ELSE [@ EXCEPT !.pc = "sleep", !.wake = now + DEBOUNCE_DELAY]]
    /\ last' = [NoOut EXCEPT !.op = "task_start", !.gid = tasks[t].gid]
    /\ UNCHANGED <<now, user_sessions, media_cache, group_timers, warning_cache,
                   orders, janitor_wake, events, arrived_at>>

\* CancelledError reaches a suspended delayed_process: except, then finally
TaskCancelled(t) ==
    /\ tasks[t].pc \in {"sleep", "answer"}
    /\ tasks[t].cancel
    /\ group_timers' = PopTimer(tasks[t].gid)
    /\ tasks' = [tasks EXCEPT ![t] = NoTask]
    /\ last' = [NoOut EXCEPT !.op = "task_cancelled", !.gid = tasks[t].gid]
    /\ UNCHANGED <<now, user_sessions, media_cache, warning_cache, orders,
                   janitor_wake, events, arrived_at>>

\* the sleep ends: process_media_group up to its first await, or to its return
TaskWake(t) ==
    LET g == tasks[t].gid
        messages == media_cache[g]
        user_id == messages[1].user
    IN  /\ tasks[t].pc = "sleep"
        /\ ~tasks[t].cancel
        /\ now >= tasks[t].wake
        /\ media_cache' = PopGroup(g)
        /\ arrived_at' = [arrived_at EXCEPT ![g] = IF media_cache'[g] = <<>> THEN 0 ELSE @]
        /\ IF messages = <<>>
           THEN /\ tasks' = [tasks EXCEPT ![t] = NoTask]
                /\ group_timers' = PopTimer(g)
                /\ last' = [NoOut EXCEPT !.op = "finalize", !.gid = g]
                /\ UNCHANGED user_sessions
           ELSE IF ~ValidGroup(messages)
           THEN /\ tasks' = [tasks EXCEPT ![t].pc = "answer"]
                /\ last' = [NoOut EXCEPT !.op = "finalize", !.gid = g, !.user = user_id,
                                         !.n = Len(messages), !.reply = "bad_group",
                                         !.quiet = now - arrived_at[g]]
                /\ UNCHANGED <<user_sessions, group_timers>>
           ELSE IF messages[1].content_type \notin MediaTypes
           THEN /\ tasks' = [tasks EXCEPT ![t] = NoTask]
                /\ group_timers' = PopTimer(g)
                /\ last' = [NoOut EXCEPT !.op = "finalize", !.gid = g, !.user = user_id,
                                         !.n = Len(messages), !.quiet = now - arrived_at[g]]
                /\ UNCHANGED user_sessions
           ELSE /\ user_sessions' = [user_sessions EXCEPT ![user_id] = NewSession(messages)]
                /\ tasks' = [tasks EXCEPT ![t].pc = "answer"]
                /\ last' = [NoOut EXCEPT !.op = "finalize", !.gid = g, !.user = user_id,
                                         !.n = Len(messages), !.reply = "confirm",
                                         !.quiet = now - arrived_at[g]]
                /\ UNCHANGED group_timers
        /\ UNCHANGED <<now, warning_cache, orders, janitor_wake, events>>

\* message.answer returns: process_media_group returns, delayed_process runs its finally
TaskAnswered(t) ==
    /\ tasks[t].pc = "answer"
    /\ ~tasks[t].cancel
    /\ group_timers' = PopTimer(tasks[t].gid)
    /\ tasks' = [tasks EXCEPT ![t] = NoTask]
    /\ last' = [NoOut EXCEPT !.op = "task_done", !.gid = tasks[t].gid]
    /\ UNCHANGED <<now, user_sessions, media_cache, warning_cache, orders,
                   janitor_wake, events, arrived_at>>

\* ------------------------------------------------------------------- time
\* a step of task t that call_soon has queued: its first step, or its cancellation
Queued(t) ==
    \/ tasks[t].pc = "start"
    \/ Live(t) /\ tasks[t].cancel

\* a step the event loop runs before any time passes
Runnable(t) ==
    \/ Queued(t)
    \/ tasks[t].pc = "sleep" /\ now >= tasks[t].wake

\* The loop runs its ready steps first in, first out: the handlers of one batch of
\* updates run back to back, ahead of the task steps they queue, and the handlers
\* of a later batch run after those steps.
HandlerOps == {"attachment", "start", "help", "order", "fallback"}
BatchOpen == (\A t \in TaskIds : ~Queued(t)) \/ last.op \in HandlerOps

\* the next instant at which a sleep ends
NextDeadline ==
    LET wakes == {tasks[t].wake : t \in {x \in TaskIds : tasks[x].pc = "sleep"}}
                 \cup {janitor_wake}
    IN  CHOOSE w \in wakes : \A v \in wakes : w <= v

\* time passes, to the next deadline or by a gap the environment chooses
Tick(t2) ==
    /\ t2 > now
    /\ t2 <= NextDeadline
    /\ \A t \in TaskIds : ~Runnable(t)
    /\ now' = t2
    /\ last' = [NoOut EXCEPT !.op = "tick"]
    /\ UNCHANGED <<user_sessions, media_cache, group_timers, warning_cache, tasks,
                   orders, janitor_wake, events, arrived_at>>

\* ---------------------------------------------------------- Cache Janitor
\* faulty variant: a pass evicts one stale group and leaves the rest to the next pass
SweepCache_OnePerPass(cache, t) ==
    LET expired == {g \in Gids : cache[g] # <<>> /\ t - cache[g][1].date > STALE_AGE}
    IN  [g \in Gids |->
            IF g \in expired /\ g = (CHOOSE x \in expired : TRUE) THEN <<>> ELSE cache[g]]

\* faulty variant: the age of a group is that of its latest message
SweepCache_LatestEvent(cache, t) ==
    [g \in Gids |->
        IF cache[g] # <<>> /\ t - cache[g][Len(cache[g])].date > STALE_AGE
        THEN <<>> ELSE cache[g]]

\* media_cache after a pass made at time t over the buffers of cache
SweepCache(cache, t) ==
    [g \in Gids |->
        IF cache[g] # <<>> /\ t - cache[g][1].date > STALE_AGE THEN <<>> ELSE cache[g]]

\* one pass of cleanup_cache's loop
Sweep ==
    /\ now >= janitor_wake
    /\ media_cache' = SweepCache(media_cache, now)
    /\ arrived_at' = [g \in Gids |-> IF media_cache'[g] = <<>> THEN 0 ELSE arrived_at[g]]
    /\ janitor_wake' = now + JANITOR_INTERVAL
    /\ last' = [NoOut EXCEPT !.op = "sweep",
                             !.n = Cardinality({g \in Gids : media_cache'[g] # media_cache[g]})]
    /\ UNCHANGED <<now, user_sessions, group_timers, warning_cache, tasks, orders,
                   events>>

\* ------------------------------------------------------------ message text
\* A text is a sequence of characters and a character is its Unicode code point.
\* The runs of decimal digits (category Nd, Unicode 14.0): re's \d on a str
\* pattern matches them all and int() reads them all; the value of a digit is its
\* place in its run, modulo ten.
DigitRuns ==
    << <<48, 57>>, <<1632, 1641>>, <<1776, 1785>>, <<1984, 1993>>,
       <<2406, 2415>>, <<2534, 2543>>, <<2662, 2671>>, <<2790, 2799>>,
       <<2918, 2927>>, <<3046, 3055>>, <<3174, 3183>>, <<3302, 3311>>,
       <<3430, 3439>>, <<3558, 3567>>, <<3664, 3673>>, <<3792, 3801>>,
       <<3872, 3881>>, <<4160, 4169>>, <<4240, 4249>>, <<6112, 6121>>,
       <<6160, 6169>>, <<6470, 6479>>, <<6608, 6617>>, <<6784, 6793>>,
       <<6800, 6809>>, <<6992, 7001>>, <<7088, 7097>>, <<7232, 7241>>,
       <<7248, 7257>>, <<42528, 42537>>, <<43216, 43225>>, <<43264, 43273>>,
       <<43472, 43481>>, <<43504, 43513>>, <<43600, 43609>>, <<44016, 44025>>,
       <<65296, 65305>>, <<66720, 66729>>, <<68912, 68921>>, <<69734, 69743>>,
       <<69872, 69881>>, <<69942, 69951>>, <<70096, 70105>>, <<70384, 70393>>,
       <<70736, 70745>>, <<70864, 70873>>, <<71248, 71257>>, <<71360, 71369>>,
       <<71472, 71481>>, <<71904, 71913>>, <<72016, 72025>>, <<72784, 72793>>,
       <<73040, 73049>>, <<73120, 73129>>, <<92768, 92777>>, <<92864, 92873>>,
       <<93008, 93017>>, <<120782, 120831>>, <<123200, 123209>>, <<123632, 123641>>,
       <<125264, 125273>>, <<130032, 130041>> >>

IsDigit(c) == \E i \in 1..Len(DigitRuns) : DigitRuns[i][1] <= c /\ c <= DigitRuns[i][2]

DigitValue(c) ==
    LET i == CHOOSE k \in 1..Len(DigitRuns) : DigitRuns[k][1] <= c /\ c <= DigitRuns[k][2]
    IN  (c - DigitRuns[i][1]) % 10

\* the characters that re's \s matches and that str.split() and int() take as
\* whitespace (str.isspace)
SpaceChars ==
    {9, 10, 11, 12, 13, 28, 29, 30, 31, 32, 133, 160, 5760} \cup (8192..8202)
        \cup {8232, 8233, 8239, 8287, 12288}

IsSpace(c) == c \in SpaceChars

\* the texts of cmd_start's filter: "/start" and the reset button's label (a
\* leftwards arrow with hook, a variation selector, a space and a Cyrillic word)
StartTexts ==
    { <<47, 115, 116, 97, 114, 116>>,
      <<8617, 65039, 32, 1057, 1073, 1088, 1086, 1089, 1080, 1090, 1100>> }

\* the texts of cmd_help's filter: "/help" and the help button's label (the SOS
\* sign, a space and a Cyrillic word)
HelpTexts ==
    { <<47, 104, 101, 108, 112>>,
      <<127384, 32, 1055, 1086, 1084, 1086, 1097, 1100>> }

\* re: ^(\d+\s*)+$
RegexMatch(text) ==
    /\ text # <<>>
    /\ IsDigit(text[1])
    /\ \A i \in 1..Len(text) : IsDigit(text[i]) \/ IsSpace(text[i])

\* str.split(): the maximal runs of non-space characters, in order
Split(text) ==
    LET n == Len(text)
        starts == {i \in 1..n : ~IsSpace(text[i]) /\ (i = 1 \/ IsSpace(text[i - 1]))}
        StartOf(k) == CHOOSE i \in starts : Cardinality({j \in starts : j < i}) = k - 1
        EndOf(i) == CHOOSE e \in i..n : /\ e = n \/ IsSpace(text[e + 1])
                                        /\ \A j \in i..e : ~IsSpace(text[j])
    IN  [k \in 1..Cardinality(starts) |-> SubSeq(text, StartOf(k), EndOf(StartOf(k)))]

\* the whitespace int() drops around the literal: the information separators
\* (code points 28..31) are not part of it
IntSpaceChars == SpaceChars \ (28..31)

Strip(s) ==
    LET n == Len(s)
        Kept(i) == s[i] \notin IntSpaceChars
    IN  IF \A i \in 1..n : ~Kept(i) THEN <<>>
        ELSE SubSeq(s, CHOOSE i \in 1..n : Kept(i) /\ \A j \in 1..(i - 1) : ~Kept(j),
                       CHOOSE i \in 1..n : Kept(i) /\ \A j \in (i + 1)..n : ~Kept(j))

PlusSign == 43
MinusSign == 45
Underscore == 95

\* the literal without its sign
Unsigned(s) == IF s # <<>> /\ s[1] \in {PlusSign, MinusSign} THEN Tail(s) ELSE s

\* the interpreter's default limit on the digits of a decimal literal
\* (sys.int_info.default_max_str_digits, Python 3.11 and later)
IntMaxStrDigits == 4300

\* the digits of a literal: every digit counts, leading zeros too; underscores do not
DigitCount(b) == Cardinality({i \in 1..Len(b) : IsDigit(b[i])})

\* int(x) returns: an optional sign, then at most IntMaxStrDigits digits with
\* single underscores between them; anything else raises ValueError
IntParses(token) ==
    LET b == Unsigned(Strip(token))
    IN  /\ b # <<>>
        /\ IsDigit(b[1])
        /\ IsDigit(b[Len(b)])
        /\ \A i \in 1..Len(b) :
              \/ IsDigit(b[i])
              \/ b[i] = Underscore /\ IsDigit(b[i - 1]) /\ IsDigit(b[i + 1])
        /\ DigitCount(b) <= IntMaxStrDigits

\* the literal from its first digit other than zero on
Significant(b) ==
    LET NonZero(i) == b[i] # Underscore /\ DigitValue(b[i]) # 0
    IN  IF \A i \in 1..Len(b) : ~NonZero(i) THEN <<>>
        ELSE SubSeq(b, CHOOSE i \in 1..Len(b) : NonZero(i) /\ \A j \in 1..(i - 1) : ~NonZero(j),
                       Len(b))

\* the value of digits and underscores, read in base ten
RECURSIVE DigitsValue(_)
DigitsValue(b) ==
    IF b = <<>> THEN 0
    ELSE IF b[Len(b)] = Underscore THEN DigitsValue(SubSeq(b, 1, Len(b) - 1))
    ELSE 10 * DigitsValue(SubSeq(b, 1, Len(b) - 1)) + DigitValue(b[Len(b)])

\* int(x), for a token that parses
ToInt(token) ==
    LET s == Strip(token)
    IN  IF s # <<>> /\ s[1] = MinusSign THEN 0 - DigitsValue(Significant(Unsigned(s)))
        ELSE DigitsValue(Significant(Unsigned(s)))

\* sorted()
RECURSIVE Sorted(_)
Sorted(s) ==
    IF s = <<>> THEN <<>>
    ELSE LET m == CHOOSE i \in 1..Len(s) : \A j \in 1..Len(s) : s[i] <= s[j]
         IN  <<s[m]>> \o Sorted(SubSeq(s, 1, m - 1) \o SubSeq(s, m + 1, Len(s)))

\* the order of the handlers registered on the dispatcher
Route(text) ==
    IF text \in StartTexts THEN "start"
    ELSE IF text \in HelpTexts THEN "help"
    ELSE IF RegexMatch(text) THEN "order"
    ELSE "fallback"

\* --------------------------------------------------------------- commands
\* faulty variant: the reset leaves the buffers alone
WithoutUser_KeepsAll(u) == media_cache

\* media_cache without the groups that hold a message of user u
WithoutUser(u) ==
    [g \in Gids |->
        IF \E i \in 1..Len(media_cache[g]) : media_cache[g][i].user = u
        THEN <<>> ELSE media_cache[g]]

\* cmd_start: drop the user's session and every buffer holding a message of theirs
CmdStart(u, text) ==
    /\ Route(text) = "start"
    /\ user_sessions' = [user_sessions EXCEPT ![u] = NoSession]
    /\ media_cache' = WithoutUser(u)
    /\ arrived_at' = [g \in Gids |-> IF media_cache'[g] = <<>> THEN 0 ELSE arrived_at[g]]
    /\ events' = events + 1
    /\ last' = [NoOut EXCEPT !.op = "start", !.user = u, !.reply = "start"]
    /\ UNCHANGED <<now, group_timers, warning_cache, tasks, orders, janitor_wake>>

\* cmd_help
CmdHelp(u, text) ==
    /\ Route(text) = "help"
    /\ events' = events + 1
    /\ last' = [NoOut EXCEPT !.op = "help", !.user = u, !.reply = "help"]
    /\ UNCHANGED <<now, user_sessions, media_cache, group_timers, warning_cache,
                   tasks, orders, janitor_wake, arrived_at>>

\* ---------------------------------------------------------- reorder input
\* faulty variant: the files go out in their stored order
OrderedFiles_Unpermuted(files, order_numbers) == files

\* [files[i - 1] for i in order_numbers]
OrderedFiles(files, order_numbers) ==
    [k \in 1..Len(order_numbers) |-> files[order_numbers[k]]]

\* faulty variant: the session is gone once it is SESSION_LIFETIME old
Expired_AtLifetime(session) == now - session.timestamp >= SESSION_LIFETIME

\* time.time() - session["timestamp"] > SESSION_LIFETIME
Expired(session) == now - session.timestamp > SESSION_LIFETIME

\* faulty variant: the range is checked before the count
ValidationError_RangeFirst(order_numbers, expected_count) ==
    IF Sorted(order_numbers) # [k \in 1..expected_count |-> k] THEN "range_error"
    ELSE IF Len(order_numbers) # expected_count
            \/ Cardinality(Range(order_numbers)) # expected_count
         THEN "count_mismatch"
    ELSE "none"

\* the two checks of the parsed numbers, in the order the handler makes them
ValidationError(order_numbers, expected_count) ==
    IF Len(order_numbers) # expected_count
       \/ Cardinality(Range(order_numbers)) # expected_count
    THEN "count_mismatch"
    ELSE IF Sorted(order_numbers) # [k \in 1..expected_count |-> k] THEN "range_error"
    ELSE "none"

\* the reply handle_order_input gives before it sends anything ("send": none)
OrderOutcome(text, session) ==
    LET tokens == Split(text)
        order_numbers == [k \in 1..Len(tokens) |-> ToInt(tokens[k])]
        expected_count == session.expected_count
    IN  IF session = NoSession THEN "no_session"
        ELSE IF Expired(session) THEN "expired"
        ELSE IF \E k \in 1..Len(tokens) : ~IntParses(tokens[k]) THEN "parse_error"
        ELSE IF ValidationError(order_numbers, expected_count) # "none"
             THEN ValidationError(order_numbers, expected_count)
        ELSE IF session.type \notin MediaTypes THEN "none"
        ELSE "send"

\* faulty variant: a rejected order drops the session too
SessionsAfterOrder_ClearsOnError(u, outcome) ==
    IF outcome \in {"expired", "parse_error", "count_mismatch", "range_error"}
    THEN [user_sessions EXCEPT ![u] = NoSession]
    ELSE user_sessions

\* user_sessions when handle_order_input reaches its first await or returns
SessionsAfterOrder(u, outcome) ==
    IF outcome = "expired" THEN [user_sessions EXCEPT ![u] = NoSession]
    ELSE user_sessions

ParsedOrder(text) == LET tokens == Split(text) IN [k \in 1..Len(tokens) |-> ToInt(tokens[k])]

\* handle_order_input up to its first await
HandleOrderInput(u, text) ==
    LET session == user_sessions[u]
        outcome == OrderOutcome(text, session)
    IN  /\ Route(text) = "order"
        /\ outcome = "send" => Len(orders) < MaxInflight
        /\ events' = events + 1
        /\ user_sessions' = SessionsAfterOrder(u, outcome)
        /\ orders' = IF outcome = "send"
                     THEN Append(orders, [user |-> u, pc |-> "send", session |-> session])
                     ELSE orders
        /\ last' = IF outcome = "send"
                   THEN [NoOut EXCEPT !.op = "order", !.user = u, !.reply = "send_media_group",
                                      !.type = session.type,
                                      !.media = OrderedFiles(session.files, ParsedOrder(text))]
                   ELSE [NoOut EXCEPT !.op = "order", !.user = u, !.reply = outcome]
        /\ UNCHANGED <<now, media_cache, group_timers, warning_cache, tasks,
                       janitor_wake, arrived_at>>

RemoveAt(s, i) == SubSeq(s, 1, i - 1) \o SubSeq(s, i + 1, Len(s))

\* faulty variant: a finished send drops every user's session
OrderSent_ClearsAll(i) ==
    /\ orders[i].pc = "send"
    /\ user_sessions' = [u \in Users |-> NoSession]
    /\ orders' = RemoveAt(orders, i)
    /\ last' = [NoOut EXCEPT !.op = "send_ok", !.user = orders[i].user]
    /\ UNCHANGED <<now, media_cache, group_timers, warning_cache, tasks,
                   janitor_wake, events, arrived_at>>

\* send_media_group returns: the finally clause drops the session
OrderSent(i) ==
    /\ orders[i].pc = "send"
    /\ user_sessions' = [user_sessions EXCEPT ![orders[i].user] = NoSession]
    /\ orders' = RemoveAt(orders, i)
    /\ last' = [NoOut EXCEPT !.op = "send_ok", !.user = orders[i].user]
    /\ UNCHANGED <<now, media_cache, group_timers, warning_cache, tasks,
                   janitor_wake, events, arrived_at>>

\* send_media_group raises: the except clause answers the user
OrderSendFailed(i) ==
    /\ orders[i].pc = "send"
    /\ orders' = [orders EXCEPT ![i].pc = "retry"]
    /\ last' = [NoOut EXCEPT !.op = "send_failed", !.user = orders[i].user,
                             !.reply = "retry"]
    /\ UNCHANGED <<now, user_sessions, media_cache, group_timers, warning_cache, tasks,
                   janitor_wake, events, arrived_at>>

\* faulty variant: the session is dropped on the success path only
OrderRetryAnswered_KeepsSession(i) ==
    /\ orders[i].pc = "retry"
    /\ orders' = RemoveAt(orders, i)
    /\ last' = [NoOut EXCEPT !.op = "retry_answered", !.user = orders[i].user]
    /\ UNCHANGED <<now, user_sessions, media_cache, group_timers, warning_cache, tasks,
                   janitor_wake, events, arrived_at>>

\* the answer of the except clause returns: the finally clause drops the session
OrderRetryAnswered(i) ==
    /\ orders[i].pc = "retry"
    /\ user_sessions' = [user_sessions EXCEPT ![orders[i].user] = NoSession]
    /\ orders' = RemoveAt(orders, i)
    /\ last' = [NoOut EXCEPT !.op = "retry_answered", !.user = orders[i].user]
    /\ UNCHANGED <<now, media_cache, group_timers, warning_cache, tasks,
                   janitor_wake, events, arrived_at>>

\* ------------------------------------------------------ antispam fallback
\* warning_cache.get(user_id, 0)
LastWarning(u) == IF warning_cache[u] = NoWarning THEN 0 ELSE warning_cache[u]

\* faulty variant: a warning exactly WARNING_COOLDOWN old still silences the next
Throttled_Inclusive(u) == now - LastWarning(u) <= WARNING_COOLDOWN

\* now - warning_cache.get(user_id, 0) < WARNING_COOLDOWN
Throttled(u) == now - LastWarning(u) < WARNING_COOLDOWN

\* fallback_handler
FallbackHandler(u, text) ==
    /\ Route(text) = "fallback"
    /\ events' = events + 1
    /\ IF Throttled(u)
       THEN /\ last' = [NoOut EXCEPT !.op = "fallback", !.user = u]
            /\ UNCHANGED warning_cache
       ELSE /\ warning_cache' = [warning_cache EXCEPT ![u] = now]
            /\ last' = [NoOut EXCEPT !.op = "fallback", !.user = u, !.reply = "fallback"]
    /\ UNCHANGED <<now, user_sessions, media_cache, group_timers, tasks, orders,
                   janitor_wake, arrived_at>>

\* ------------------------------------------------------------ environment
\* the text that names the numbers of s in ASCII digits, one space between them
TextOf(s) ==
    [i \in 1..(2 * Len(s) - 1) |-> IF i % 2 = 1 THEN 48 + s[(i + 1) \div 2] ELSE 32]

\* the number sequences the environment sends as plain text
PlainOrders ==
    { <<1>>, <<1, 2>>, <<2, 1>>, <<1, 1>>, <<1, 3>>, <<0, 1>>, <<3, 2>>,
      <<1, 2, 3>>, <<1, 3, 2>>, <<2, 1, 3>>, <<2, 3, 1>>, <<3, 1, 2>>, <<3, 2, 1>>,
      <<1, 2, 2>>, <<1, 2, 4>>, <<2, 3, 4>>, <<1, 2, 3, 4>> }
NumberTexts == {TextOf(s) : s \in PlainOrders}

\* the other texts it sends: "12", "2  1", "2 1 ", "02 1", " 2 1", "2 x", "hi",
\* "-1 2", "+2 1", "1_0 2", and a message without text
PlainOddTexts ==
    { <<49, 50>>, <<50, 32, 32, 49>>, <<50, 32, 49, 32>>, <<48, 50, 32, 49>>,
      <<32, 50, 32, 49>>, <<50, 32, 120>>, <<104, 105>>, <<45, 49, 32, 50>>,
      <<43, 50, 32, 49>>, <<49, 95, 48, 32, 50>>, <<>> }

\* and the orders written with other whitespace or other digits: "2", newline,
\* "1"; "2", tab, "1"; "2 1" and a newline; "2", no-break space, "1"; "3 1 2" on
\* three lines with CR LF; Arabic-Indic two, space, Arabic-Indic one; fullwidth
\* "2 1"; Devanagari one, newline, ASCII "2"
WideOrders ==
    { [text |-> <<50, 10, 49>>, numbers |-> <<2, 1>>],
      [text |-> <<50, 9, 49>>, numbers |-> <<2, 1>>],
      [text |-> <<50, 32, 49, 10>>, numbers |-> <<2, 1>>],
      [text |-> <<50, 160, 49>>, numbers |-> <<2, 1>>],
      [text |-> <<51, 13, 10, 49, 13, 10, 50>>, numbers |-> <<3, 1, 2>>],
      [text |-> <<1634, 32, 1633>>, numbers |-> <<2, 1>>],
      [text |-> <<65298, 12288, 65297>>, numbers |-> <<2, 1>>],
      [text |-> <<2407, 10, 50>>, numbers |-> <<1, 2>>] }
WideOrderTexts == {w.text : w \in WideOrders}

\* the orders it writes, each with the numbers it names
WrittenOrders == {[text |-> TextOf(s), numbers |-> s] : s \in PlainOrders} \cup WideOrders
OddTexts == PlainOddTexts \cup WideOrderTexts

\* texts with a token at the limit of int(): "1" 4301 times; "2" and a "1" after
\* 4300 zeros; and, one digit shorter, a "2" after 4299 zeros and "1"
OverLongTexts ==
    { [i \in 1..(IntMaxStrDigits + 1) |-> 49],
      <<50, 32>> \o [i \in 1..IntMaxStrDigits |-> 48] \o <<49>> }
LongOrders ==
    { [text |-> [i \in 1..(IntMaxStrDigits - 1) |-> 48] \o <<50, 32, 49>>,
       numbers |-> <<2, 1>>] }
LongTexts == OverLongTexts \cup {w.text : w \in LongOrders}
Texts == StartTexts \cup HelpTexts \cup NumberTexts \cup OddTexts
OrderTexts == {text \in Texts : Route(text) = "order"}
FallbackTexts == {text \in Texts : Route(text) = "fallback"}

\* an attachment the environment may deliver: any user's, under any group id;
\* only a group's first message is offered with an old date
Offered(u, g, lag) == lag = 0 \/ media_cache[g] = <<>>

\* the environment delivers at most MaxEvents events
MayDeliver == events < MaxEvents /\ BatchOpen

Next ==
    \/ \E u \in Users, g \in Gids, ct \in InputTypes, lag \in DateLags :
          MayDeliver /\ Offered(u, g, lag) /\ HandleMediaGroup(u, g, ct, lag)
    \/ \E u \in Users, text \in StartTexts : MayDeliver /\ CmdStart(u, text)
    \/ \E u \in Users, text \in HelpTexts : MayDeliver /\ CmdHelp(u, text)
    \/ \E u \in Users, text \in OrderTexts : MayDeliver /\ HandleOrderInput(u, text)
    \/ \E u \in Users, text \in FallbackTexts : MayDeliver /\ FallbackHandler(u, text)
    \/ \E i \in 1..Len(orders) : OrderSent(i)
    \/ \E i \in 1..Len(orders) : OrderSendFailed(i)
    \/ \E i \in 1..Len(orders) : OrderRetryAnswered(i)
    \/ \E t \in TaskIds : TaskStart(t)
    \/ \E t \in TaskIds : TaskCancelled(t)
    \/ \E t \in TaskIds : TaskWake(t)
    \/ \E t \in TaskIds : TaskAnswered(t)
    \/ \E t2 \in {now + d : d \in TickSteps} \cup {NextDeadline} :
          t2 <= StartTime + Horizon /\ Tick(t2)
    \/ Sweep

Spec == Init /\ [][Next]_vars

\* ---------------------------------------------------- other starting points
\* what the bot holds for a group of n messages of sender u that arrived just now
\* in one batch of updates: the buffer, and the one timer that was not cancelled
BurstSizes == {1, MAX_FILES, MAX_FILES + 1}
BurstKinds == {<<"photo", "photo">>, <<"photo", "video">>, <<"sticker", "sticker">>}
SessionSizes == {2, 3}
SessionAges == {2, SESSION_LIFETIME - 6}
JanitorLead == 3

Burst(u, g, n, ct, odd) ==
    [i \in 1..n |-> [user |-> u, content_type |-> IF i = n THEN odd ELSE ct,
                     file |-> <<g, i>>, date |-> (StartTime \div 10) * 10]]

\* one group is buffered, its timer asleep, the janitor JanitorLead before its sweep
InitBurst ==
    /\ now = StartTime
    /\ user_sessions = [u \in Users |-> NoSession]
    /\ \E n \in BurstSizes, kind \in BurstKinds :
          media_cache = [g \in Gids |->
                            IF g = "g1" THEN Burst("u1", g, n, kind[1], kind[2]) ELSE <<>>]
    /\ group_timers = [g \in Gids |-> IF g = "g1" THEN 1 ELSE 0]
    /\ warning_cache = [u \in Users |-> NoWarning]
    /\ tasks = [t \in TaskIds |->
                   IF t = 1 THEN [pc |-> "sleep", gid |-> "g1",
                                  wake |-> StartTime + DEBOUNCE_DELAY, cancel |-> FALSE]
                   ELSE NoTask]
    /\ orders = <<>>
    /\ janitor_wake = StartTime + JanitorLead
    /\ events = 1
    /\ arrived_at = [g \in Gids |-> IF g = "g1" THEN StartTime ELSE 0]
    /\ last = NoOut

SpecBurst == InitBurst /\ [][Next]_vars

\* the session a finalize at time ts leaves for a group g of n files of type ct
SessionOf(g, n, ct, ts) ==
    [files |-> [i \in 1..n |-> <<g, i>>], type |-> ct, expected_count |-> n,
     timestamp |-> ts]

\* user u1 holds a session, young or about to expire; nothing else is pending
InitSession ==
    /\ now = StartTime
    /\ \E n \in SessionSizes, age \in SessionAges, ct \in {"photo", "document"} :
          user_sessions = [u \in Users |->
                              IF u = "u1" THEN SessionOf("g1", n, ct, StartTime - age)
                              ELSE NoSession]
    /\ media_cache = [g \in Gids |-> <<>>]
    /\ group_timers = [g \in Gids |-> 0]
    /\ warning_cache = [u \in Users |-> NoWarning]
    /\ tasks = [t \in TaskIds |-> NoTask]
    /\ orders = <<>>
    /\ janitor_wake = StartTime + JanitorLead
    /\ events = 1
    /\ arrived_at = [g \in Gids |-> 0]
    /\ last = NoOut

SpecSession == InitSession /\ [][Next]_vars

\* the same sessions, with one event to come, which may be a text of LongTexts
InitLong ==
    /\ now = StartTime
    /\ \E n \in SessionSizes, age \in SessionAges, ct \in {"photo", "document"} :
          user_sessions = [u \in Users |->
                              IF u = "u1" THEN SessionOf("g1", n, ct, StartTime - age)
                              ELSE NoSession]
    /\ media_cache = [g \in Gids |-> <<>>]
    /\ group_timers = [g \in Gids |-> 0]
    /\ warning_cache = [u \in Users |-> NoWarning]
    /\ tasks = [t \in TaskIds |-> NoTask]
    /\ orders = <<>>
    /\ janitor_wake = StartTime + JanitorLead
    /\ events = MaxEvents - 1
    /\ arrived_at = [g \in Gids |-> 0]
    /\ last = NoOut

NextLong ==
    \/ \E u \in Users, text \in OrderTexts \cup LongTexts :
          MayDeliver /\ HandleOrderInput(u, text)
    \/ \E u \in Users, text \in FallbackTexts : MayDeliver /\ FallbackHandler(u, text)
    \/ \E i \in 1..Len(orders) : OrderSent(i)
    \/ \E i \in 1..Len(orders) : OrderSendFailed(i)
    \/ \E i \in 1..Len(orders) : OrderRetryAnswered(i)
    \/ \E t2 \in {now + d : d \in TickSteps} \cup {NextDeadline} :
          t2 <= StartTime + Horizon /\ Tick(t2)
    \/ Sweep

SpecLong == InitLong /\ [][NextLong]_vars

\* the debounce scenario: three attachments of one group, 0.3 s apart, nothing else
ArrivalGap == 3
ScenarioArrivals == 3
ScenarioHorizon == 13
ScenarioArrival(u, g, ct) ==
    /\ events < ScenarioArrivals
    /\ BatchOpen
    /\ now = StartTime + ArrivalGap * events
    /\ events = 0 \/ media_cache[g] # <<>>
    /\ Offered(u, g, 0)
    /\ HandleMediaGroup(u, g, ct, 0)

ScenarioTick(t2) ==
    /\ events < ScenarioArrivals => t2 <= StartTime + ArrivalGap * events
    /\ t2 <= StartTime + ScenarioHorizon
    /\ Tick(t2)

NextDebounce ==
    \/ \E u \in Users, g \in Gids, ct \in InputTypes : ScenarioArrival(u, g, ct)
    \/ \E t \in TaskIds : TaskStart(t)
    \/ \E t \in TaskIds : TaskCancelled(t)
    \/ \E t \in TaskIds : TaskWake(t)
    \/ \E t \in TaskIds : TaskAnswered(t)
    \/ \E t2 \in {now + d : d \in TickSteps} \cup {NextDeadline} : ScenarioTick(t2)
    \/ Sweep

SpecDebounce == Init /\ [][NextDebounce]_vars

\* the bot in service: both users hold a session, u1 was warned WarnedAgo before
\* and has sent two more photos, which are buffered with their timer asleep
WarnedAgo == 9
InitService ==
    /\ now = StartTime
    /\ user_sessions = [u \in Users |->
                           IF u = "u1" THEN SessionOf("g0", 3, "photo", StartTime - 2)
                           ELSE SessionOf("g9", 2, "document", StartTime - 2)]
    /\ media_cache = [g \in Gids |-> IF g = "g1" THEN Burst("u1", g, 2, "photo", "photo") ELSE <<>>]
    /\ group_timers = [g \in Gids |-> IF g = "g1" THEN 1 ELSE 0]
    /\ warning_cache = [u \in Users |-> IF u = "u1" THEN StartTime - WarnedAgo ELSE NoWarning]
    /\ tasks = [t \in TaskIds |->
                   IF t = 1 THEN [pc |-> "sleep", gid |-> "g1",
                                  wake |-> StartTime + DEBOUNCE_DELAY, cancel |-> FALSE]
                   ELSE NoTask]
    /\ orders = <<>>
    /\ janitor_wake = StartTime + JanitorLead
    /\ events = 1
    /\ arrived_at = [g \in Gids |-> IF g = "g1" THEN StartTime ELSE 0]
    /\ last = NoOut

SpecService == InitService /\ [][Next]_vars

\* photos sent just now and resets only, one event more than MaxEvents: a group
\* can be buffered, reset away and followed by a group that is finalized
ResetEvents == 4
NextReset ==
    \/ \E u \in Users, g \in Gids :
          /\ events < ResetEvents
          /\ BatchOpen
          /\ Offered(u, g, 0)
          /\ HandleMediaGroup(u, g, "photo", 0)
    \/ \E u \in Users, text \in StartTexts :
          events < ResetEvents /\ BatchOpen /\ CmdStart(u, text)
    \/ \E t \in TaskIds : TaskStart(t)
    \/ \E t \in TaskIds : TaskCancelled(t)
    \/ \E t \in TaskIds : TaskWake(t)
    \/ \E t \in TaskIds : TaskAnswered(t)
    \/ \E t2 \in {now + d : d \in TickSteps} \cup {NextDeadline} :
          t2 <= StartTime + Horizon /\ Tick(t2)
    \/ Sweep

SpecReset == Init /\ [][NextReset]_vars

\* the steps of the delayed_process tasks, which the event loop runs when ready
TaskStep ==
    \E t \in TaskIds : TaskStart(t) \/ TaskCancelled(t) \/ TaskWake(t) \/ TaskAnswered(t)

\* time passes: within the horizon by any gap, past it to the end of a task's sleep
TimePasses ==
    \E t2 \in {now + d : d \in TickSteps} \cup {NextDeadline} :
        /\ \/ t2 <= StartTime + Horizon
           \/ \E t \in TaskIds : tasks[t].pc = "sleep" /\ tasks[t].wake = t2
        /\ Tick(t2)

\* attachments and resets, then no more events: the loop keeps running its tasks
\* and the clock keeps going until every sleep has ended
NextLive ==
    \/ \E u \in Users, g \in Gids, ct \in InputTypes :
          /\ MayDeliver
          /\ now <= StartTime + Horizon
          /\ Offered(u, g, 0)
          /\ HandleMediaGroup(u, g, ct, 0)
    \/ \E u \in Users, text \in StartTexts :
          MayDeliver /\ now <= StartTime + Horizon /\ CmdStart(u, text)
    \/ TaskStep
    \/ TimePasses
    \/ Sweep

\* the loop runs every ready step: those of the timers and that of the janitor
SpecLive ==
    /\ Init
    /\ [][NextLive]_vars
    /\ WF_vars(TaskStep)
    /\ WF_vars(TimePasses)
    /\ WF_vars(Sweep)

\* ------------------------------------------------------------ sanity checks
TypeOK ==
    /\ now \in StartTime..(StartTime + Horizon + ScenarioHorizon)
    /\ \A u \in Users : user_sessions[u] = NoSession
                        \/ user_sessions[u].expected_count = Len(user_sessions[u].files)
    /\ \A g \in Gids : group_timers[g] \in TaskIds \cup {0}
    /\ events \in 0..ScenarioArrivals \cup 0..MaxEvents \cup 0..ResetEvents
    /\ Len(orders) <= MaxInflight

\* group_timers never names a task that has finished
TimersLive == \A g \in Gids : group_timers[g] # 0 => Live(group_timers[g])

\* ------------------------------------------------------------------ claims
\* the delayed_process tasks of group g that are created, not cancelled, not finished
LiveTimers(g) == {t \in TaskIds : Live(t) /\ tasks[t].gid = g /\ ~tasks[t].cancel}

\* no task is left to run
Quiescent == \A t \in TaskIds : ~Live(t)

\* C2: in the debounce scenario (three attachments of one group at 0, 0.3 s and
\* 0.6 s) the buffer is popped non-empty exactly once, 0.7 s after the last
\* arrival and not earlier, with all three attachments in it.
C2_DebounceScenario ==
    /\ (last.op = "finalize" /\ last.n > 0) =>
          /\ now = StartTime + ArrivalGap * (ScenarioArrivals - 1) + DEBOUNCE_DELAY
          /\ last.n = ScenarioArrivals
    /\ (events = ScenarioArrivals /\ Quiescent) => \A g \in Gids : media_cache[g] = <<>>

\* C3: a group id never has two live debounce timers at once.
C3_OneLiveTimerPerGroup == \A g \in Gids : Cardinality(LiveTimers(g)) <= 1

\* C4: a non-empty buffer is never popped less than the debounce delay after the
\* latest arrival for its group.
C4_QuietBeforeFinalize ==
    (last.op = "finalize" /\ last.n > 0) => last.quiet >= DEBOUNCE_DELAY

\* ---------------------------------------------------------------- C1, C7..C10
IsPermutation(s, n) == Len(s) = n /\ Range(s) = 1..n

Unexpired(u) == HasSession(u) /\ now - user_sessions[u].timestamp <= SESSION_LIFETIME

\* every written order is routed to handle_order_input and read there as its numbers
OrdersRead ==
    \A w \in WrittenOrders \cup LongOrders : Route(w.text) = "order" /\ ParsedOrder(w.text) = w.numbers

\* C1: a permutation P of 1..N sent by a user with an unexpired session of N files,
\* written with any whitespace and any decimal digits, requests one grouped send whose i-th item is files[P[i]], of the session's type.
C1_ReorderSend ==
    [][\A u \in Users, w \in WrittenOrders :
          LET P == w.numbers
          IN  (last'.op = "order" /\ Unexpired(u)
                 /\ IsPermutation(P, user_sessions[u].expected_count)
                 /\ HandleOrderInput(u, w.text))
              => /\ OrdersRead
                 /\ last'.reply = "send_media_group"
                 /\ last'.user = u
                 /\ last'.type = user_sessions[u].type
                 /\ Len(last'.media) = Len(P)
                 /\ \A i \in 1..Len(P) : last'.media[i] = user_sessions[u].files[P[i]]
                 /\ Len(orders') = Len(orders) + 1]_vars

\* the spec's example: "3 1 2" sends file3, file1, file2
C1_Witness ==
    /\ last.op = "order"
    /\ last.reply = "send_media_group"
    /\ last.media = << <<"g1", 3>>, <<"g1", 1>>, <<"g1", 2>> >>

\* C5: every session holds 2..10 files, as many as its expected_count, of a media type.
C5_SessionShape ==
    \A u \in Users :
        HasSession(u) =>
            /\ user_sessions[u].expected_count >= 2
            /\ user_sessions[u].expected_count <= 10
            /\ user_sessions[u].expected_count = Len(user_sessions[u].files)
            /\ user_sessions[u].type \in {"photo", "video", "audio", "document"}

C5_Witness == \E u \in Users : HasSession(u) /\ user_sessions[u].expected_count = 10

\* the buffer breaks the rule: several content types, or fewer than 2, or more than 10
BadGroup(messages) ==
    \/ \E i, j \in 1..Len(messages) : messages[i].content_type # messages[j].content_type
    \/ Len(messages) < 2
    \/ Len(messages) > 10

\* C6: finalizing a buffer of mixed types or of a count outside 2..10 answers the
\* user with the error, removes the buffer and leaves user_sessions as it was.
C6_BadGroupRejected ==
    [][\A t \in TaskIds :
          (last'.op = "finalize" /\ TaskWake(t) /\ media_cache[tasks[t].gid] # <<>>
             /\ BadGroup(media_cache[tasks[t].gid]))
          => /\ last'.reply = "bad_group"
             /\ last'.user = media_cache[tasks[t].gid][1].user
             /\ media_cache'[tasks[t].gid] = <<>>
             /\ user_sessions' = user_sessions]_vars

C6_Witness == last.op = "finalize" /\ last.reply = "bad_group" /\ last.n = 11

\* C7: when the handler of a validated order is through with its send, sent or
\* failed, its user has no session; a failed send is answered with the retry
\* reply, and the handler lives on to its finally clause.
C7_SessionClearedAfterSend ==
    /\ last.op \in {"send_ok", "retry_answered"} => ~HasSession(last.user)
    /\ last.op = "send_failed" =>
          /\ last.reply = "retry"
          /\ \E i \in 1..Len(orders) : orders[i].user = last.user /\ orders[i].pc = "retry"

C7_Witness == last.op = "retry_answered" /\ ~HasSession(last.user)

\* every over-long text passes the filter of handle_order_input and holds a token
\* that int() refuses
OverLongRefused ==
    \A text \in OverLongTexts :
        /\ Route(text) = "order"
        /\ \E k \in 1..Len(Split(text)) : ~IntParses(Split(text)[k])

\* C8: an order that fails validation (a token int() refuses, which is one of more
\* than 4300 digits, for a text with a non-numeric token never reaches the
\* validator; wrong count, duplicates, numbers out of range) leaves the session of
\* its user as it was and requests no send, and every permutation still validates
\* against that session.
C8_FailedOrderKeepsSession ==
    [][\A u \in Users :
          /\ (last'.op = "order" /\ last'.reply = "parse_error" /\ last'.user = u)
             => /\ OverLongRefused
                /\ Unexpired(u)
                /\ \E text \in OverLongTexts : HandleOrderInput(u, text)
                /\ user_sessions'[u] = user_sessions[u]
                /\ orders' = orders
                /\ \A P \in PlainOrders :
                      IsPermutation(P, user_sessions'[u].expected_count)
                      => OrderOutcome(TextOf(P), user_sessions'[u]) = "send"
          /\ \A s \in PlainOrders :
                (last'.op = "order" /\ Unexpired(u)
                   /\ ~IsPermutation(s, user_sessions[u].expected_count)
                   /\ HandleOrderInput(u, TextOf(s)))
                => /\ user_sessions'[u] = user_sessions[u]
                   /\ orders' = orders
                   /\ last'.reply \in {"count_mismatch", "range_error"}
                   /\ \A P \in PlainOrders :
                         IsPermutation(P, user_sessions'[u].expected_count)
                         => OrderOutcome(TextOf(P), user_sessions'[u]) = "send"
          /\ \A text \in FallbackTexts :
                (last'.op = "fallback" /\ Unexpired(u) /\ FallbackHandler(u, text))
                => /\ user_sessions'[u] = user_sessions[u]
                   /\ orders' = orders
                   /\ last'.reply \in {"fallback", "none"}]_vars

\* an over-long token has been refused and the session of three files is in place
C8_Witness ==
    /\ last.op = "order"
    /\ last.reply = "parse_error"
    /\ Unexpired(last.user)
    /\ user_sessions[last.user].expected_count = 3

\* C9, as claimed: every order whose sorted numbers differ from 1..N is answered
\* with the range error.
C9_AlwaysRangeError ==
    [][\A u \in Users, s \in PlainOrders :
          (last'.op = "order" /\ Unexpired(u)
             /\ ~IsPermutation(s, user_sessions[u].expected_count)
             /\ HandleOrderInput(u, TextOf(s)))
          => last'.reply = "range_error"]_vars

\* C9, amended: N distinct numbers that are not 1..N are answered with the range
\* error; a count other than N, or a repeated number, with the count error.
C9_RangeOrCountError ==
    [][\A u \in Users, s \in PlainOrders :
          (last'.op = "order" /\ Unexpired(u)
             /\ ~IsPermutation(s, user_sessions[u].expected_count)
             /\ HandleOrderInput(u, TextOf(s)))
          => last'.reply =
                IF Len(s) = user_sessions[u].expected_count
                   /\ Cardinality(Range(s)) = user_sessions[u].expected_count
                THEN "range_error" ELSE "count_mismatch"]_vars

C9_Witness ==
    /\ last.op = "order"
    /\ last.reply = "range_error"
    /\ Unexpired(last.user)
    /\ user_sessions[last.user].expected_count = 2

\* C10: an order more than 120 s after the session's creation removes the session,
\* is answered with the expiry reply and requests no send; an order at most 120 s
\* after it is processed against the session; and a session is removed only by an
\* expired order, a finished send or a reset.
C10_LazyExpiry ==
    [][\A u \in Users :
          /\ \A text \in OrderTexts :
                (last'.op = "order" /\ last'.user = u /\ HasSession(u)
                   /\ HandleOrderInput(u, text))
                => IF now - user_sessions[u].timestamp > SESSION_LIFETIME
                   THEN /\ user_sessions'[u] = NoSession
                        /\ last'.reply = "expired"
                        /\ orders' = orders
                   ELSE /\ user_sessions'[u] = user_sessions[u]
                        /\ last'.reply \in {"send_media_group", "count_mismatch",
                                            "range_error"}
          /\ (HasSession(u) /\ user_sessions'[u] = NoSession)
             => /\ last'.user = u
                /\ \/ last'.op = "order" /\ last'.reply = "expired"
                   \/ last'.op \in {"send_ok", "retry_answered", "start"}]_vars

C10_Witness ==
    /\ last.op = "order"
    /\ last.reply = "expired"
    /\ ~HasSession(last.user)
    /\ now > StartTime

\* -------------------------------------------------------------- C11..C20
\* the state cmd_start leaves for user u, as the k-th event delivered
ResetDone(u, k) == last.op = "start" /\ last.user = u /\ events = k

\* a session of u holds only files that arrived after the k-th event
FreshSession(u, k) ==
    HasSession(u) =>
        \A i \in 1..Len(user_sessions[u].files) :
            user_sessions[u].files[i][2] > Preloaded + k

\* C11: right after cmd_start for user u, u has no session and no buffer holds a
\* message of u; and from then on no session of u holds a file that arrived before
\* the reset, although the timers of the removed groups still fire.
C11_ResetClears ==
    /\ [](last.op = "start" =>
             /\ ~HasSession(last.user)
             /\ \A g \in Gids : \A i \in 1..Len(media_cache[g]) :
                   media_cache[g][i].user # last.user)
    /\ \A u \in Users : \A k \in 1..ResetEvents :
          [](ResetDone(u, k) => [](FreshSession(u, k)))

\* a reset has just removed a group whose timer is still asleep
C11_Witness ==
    /\ last.op = "start"
    /\ \E t \in TaskIds :
          /\ tasks[t].pc = "sleep"
          /\ ~tasks[t].cancel
          /\ now < tasks[t].wake
          /\ media_cache[tasks[t].gid] = <<>>

\* C12: a second pass of the janitor, made at the time of the first with no arrival
\* in between, leaves media_cache as the first pass left it.
C12_SweepIdempotent ==
    SweepCache(SweepCache(media_cache, now), now) = SweepCache(media_cache, now)

\* one pass has just evicted both groups
C12_Witness == last.op = "sweep" /\ last.n = 2

\* C15: one pass of the janitor removes exactly the groups whose first message is
\* more than 30 s old, keeps every other buffer as it was, and leaves
\* user_sessions, group_timers and warning_cache alone.
C15_SweepFrame ==
    [][(last'.op = "sweep" /\ Sweep)
       => /\ \A g \in Gids :
                media_cache'[g] =
                    IF media_cache[g] # <<>> /\ now - media_cache[g][1].date > 300
                    THEN <<>> ELSE media_cache[g]
          /\ user_sessions' = user_sessions
          /\ group_timers' = group_timers
          /\ warning_cache' = warning_cache]_vars

\* one pass has just evicted one group and kept the other, which holds messages
C15_Witness ==
    /\ last.op = "sweep"
    /\ last.n = 1
    /\ \E g \in Gids : media_cache[g] # <<>>

\* a step of a handler run for an event of user u, or of the finalize of a group
\* whose messages are all from u
ActsFor(u) ==
    \/ last'.op = "start" /\ \E text \in StartTexts : CmdStart(u, text)
    \/ last'.op = "order" /\ \E text \in OrderTexts : HandleOrderInput(u, text)
    \/ last'.op = "fallback" /\ \E text \in FallbackTexts : FallbackHandler(u, text)
    \/ \E i \in 1..Len(orders) :
          /\ orders[i].user = u
          /\ OrderSent(i) \/ OrderSendFailed(i) \/ OrderRetryAnswered(i)
    \/ /\ last'.op = "finalize"
       /\ \E t \in TaskIds :
             /\ TaskWake(t)
             /\ media_cache[tasks[t].gid] # <<>>
             /\ \A i \in 1..Len(media_cache[tasks[t].gid]) :
                   media_cache[tasks[t].gid][i].user = u

\* C13: a handler step for user u, or the finalize of a group of u, leaves the
\* session and the warning time of every other user as they were.
C13_NoCrossUser ==
    [][\A u \in Users : \A v \in Users \ {u} :
          ActsFor(u) => /\ user_sessions'[v] = user_sessions[v]
                        /\ warning_cache'[v] = warning_cache[v]]_vars

\* u1's send has finished and u1's session is gone, while u2 holds a session
C13_Witness ==
    /\ last.op = "send_ok"
    /\ last.user = "u1"
    /\ ~HasSession("u1")
    /\ HasSession("u2")

\* C14: a cancelled debounce task is never one that has popped its buffer and is
\* waiting for its reply to the user to go out.
C14_NoPartialFinalize ==
    \A t \in TaskIds : ~(tasks[t].pc = "answer" /\ tasks[t].cancel)

\* C16: a fallback event less than 1.5 s after the user's recorded warning sends
\* nothing and leaves warning_cache alone; any other one sends the reply and
\* records its time, so two replies to a user are at least 1.5 s apart.
C16_WarningThrottle ==
    [][\A u \in Users : \A text \in FallbackTexts :
          (last'.op = "fallback" /\ FallbackHandler(u, text))
          => IF warning_cache[u] # NoWarning /\ now - warning_cache[u] < 15
             THEN /\ last'.reply = "none"
                  /\ warning_cache' = warning_cache
             ELSE /\ last'.reply = "fallback"
                  /\ warning_cache' = [warning_cache EXCEPT ![u] = now]]_vars

\* u1, warned 0.9 s before the start, is answered again exactly 1.5 s after it
C16_Witness ==
    /\ last.op = "fallback"
    /\ last.reply = "fallback"
    /\ last.user = "u1"
    /\ now = StartTime - WarnedAgo + 15
    /\ warning_cache["u1"] = now

\* C17: the finalize of 2..10 messages of one media type stores, under the user of
\* the first message, the files in buffer order, whatever session that user had;
\* and a session appears or changes by such a finalize only.
C17_FinalizeReplaces ==
    [][/\ \A t \in TaskIds :
             LET messages == media_cache[tasks[t].gid]
             IN  (/\ last'.op = "finalize"
                  /\ TaskWake(t)
                  /\ Len(messages) >= 2
                  /\ Len(messages) <= 10
                  /\ \A i \in 1..Len(messages) :
                        messages[i].content_type = messages[1].content_type
                  /\ messages[1].content_type \in {"photo", "video", "audio", "document"})
                 => user_sessions' =
                        [user_sessions EXCEPT ![messages[1].user] =
                            [files |-> [i \in 1..Len(messages) |-> messages[i].file],
                             type |-> messages[1].content_type,
                             expected_count |-> Len(messages),
                             timestamp |-> now]]
       /\ \A u \in Users :
             (user_sessions'[u] # user_sessions[u] /\ user_sessions'[u] # NoSession)
             => /\ last'.op = "finalize"
                /\ last'.reply = "confirm"
                /\ last'.user = u]_vars

\* no event since the start: u1's first session was in place when the finalize of
\* the two buffered photos stored the new one
C17_Witness ==
    /\ events = 1
    /\ last.op = "finalize"
    /\ last.reply = "confirm"
    /\ last.user = "u1"
    /\ user_sessions["u1"].timestamp = now
    /\ user_sessions["u1"].files = << <<"g1", 1>>, <<"g1", 2>> >>

\* C18: a session is removed only by the end of a send that was validated against
\* that very session, by a reset, or by an order that finds it expired.
C18_RemovedByOwnSendOnly ==
    [][\A u \in Users :
          (HasSession(u) /\ user_sessions'[u] = NoSession)
          => \/ last'.op = "start" /\ last'.user = u
             \/ last'.op = "order" /\ last'.user = u /\ last'.reply = "expired"
             \/ \E i \in 1..Len(orders) :
                   /\ orders[i].user = u
                   /\ orders[i].session = user_sessions[u]
                   /\ OrderSent(i) \/ OrderRetryAnswered(i)]_vars

\* C19: no two grouped-media sends are requested for one session.
C19_OneSendPerSession ==
    \A i, j \in 1..Len(orders) :
        (orders[i].user = orders[j].user /\ orders[i].session = orders[j].session)
        => i = j

\* C20: a group with a non-empty buffer always has a live debounce timer that has
\* yet to pop it, and with
\* the loop running its tasks and the clock going on, every buffered group is
\* eventually removed from media_cache.
C20_NoStrandedGroup ==
    /\ [](\A g \in Gids :
             media_cache[g] # <<>>
             => \E t \in LiveTimers(g) : tasks[t].pc \in {"start", "sleep"})
    /\ \A g \in Gids : (media_cache[g] # <<>>) ~> (media_cache[g] = <<>>)

\* two attachments, the first one's timer cancelled, popped by the timer left
C20_Witness ==
    /\ last.op = "finalize"
    /\ last.n = 2
    /\ media_cache[last.gid] = <<>>
====
